---- MODULE Spec2Model ----
(***************************************************************************)
(* Model of the Swift binding generator, src/src/idl_gen_swift.cpp.        *)
(*                                                                         *)
(* The parsed schema (parser_.enums_, parser_.structs_, parser_.opts,      *)
(* parser_.root_struct_def_, parser_.file_identifier_) is the input; the   *)
(* generated text is modelled as a sequence of emission items, one item    *)
(* per emitted declaration, call or parameter, in the order the code       *)
(* appends the text.  SwiftGenerator::generate is the state machine: one   *)
(* action per loop iteration, loop exit and final save.                    *)
(***************************************************************************)
EXTENDS Integers, Sequences, FiniteSets, TLC

VARIABLES
    enums,            \* parser_.enums_.vec: sequence of EnumDef
    structs,          \* parser_.structs_.vec: sequence of StructDef
    one_file,         \* parser_.opts.one_file
    root_struct_def,  \* parser_.root_struct_def_: index into structs, 0 = none
    file_identifier,  \* parser_.file_identifier_
    pc,               \* position of generate(): "enums", "structs", "onefile", "done"
    it,               \* loop iterator of the running loop (1-based index)
    def,              \* <<kind, index>> of the definition declcode was generated from
    declcode,         \* declcode of the last loop iteration
    one_file_code,    \* one_file_code accumulated so far
    saves,            \* every SaveFile call made so far: [kind, idx, code, ok]
    ret               \* return value of generate(): "running", "true", "false"

vars == <<enums, structs, one_file, root_struct_def, file_identifier,
          pc, it, def, declcode, one_file_code, saves, ret>>

(***************************************************************************)
(* Bounds of the model.                                                    *)
(***************************************************************************)
MaxFields == 3
MaxStructs == 2
MaxEnums == 2

\* sizeof(largest_scalar_t), the first size class of the sortbysize pass
LargestScalarSize == 8

(***************************************************************************)
(* Emission items.  field is the 1-based declaration position of the field *)
(* the text names (0: none), num the number printed by NumToString (-1:    *)
(* none), dflt the printed field.value.constant, text a printed string.    *)
(***************************************************************************)
Item(op, field, num, dflt, text) ==
    [op |-> op, field |-> field, num |-> num, dflt |-> dflt, text |-> text]

RECURSIVE Concat(_)
Concat(ss) == IF ss = <<>> THEN <<>> ELSE Head(ss) \o Concat(Tail(ss))

SeqsUpTo(S, n) == UNION {[1..k -> S] : k \in 0..n}

(***************************************************************************)
(* BeginFile: the generated-file warning and the two imports.              *)
(***************************************************************************)
BeginFile == <<Item("banner", 0, -1, 0, ""), Item("import", 0, -1, 0, "Foundation"),
               Item("import", 0, -1, 0, "FlatBuffers")>>

(***************************************************************************)
(* GenEnum: the enum header, one case per value, the closing brace.        *)
(***************************************************************************)
GenEnum(enum_def) ==
    <<Item("enum", 0, -1, 0, "")>>
    \o [k \in 1..Len(enum_def.vals) |-> Item("case", k, enum_def.vals[k], 0, "")]
    \o <<Item("enum_end", 0, -1, 0, "")>>

(***************************************************************************)
(* GenStruct, lines 257-287: one getter per non-deprecated field; the key  *)
(* of the vtable lookup is field.value.offset, the fallback the constant.  *)
(***************************************************************************)
\* faulty variant: the lookup key is the declaration position
GetterKeyIsIndex(struct_def, i) == i - 1

GetterKey(struct_def, i) == struct_def.fields[i].offset

\* faulty variant: the deprecated test of line 261 is missing
AccessorsAll(struct_def) ==
    [i \in 1..Len(struct_def.fields) |->
        Item("getter", i, GetterKey(struct_def, i), struct_def.fields[i].constant, "")]

Accessors(struct_def) ==
    Concat([i \in 1..Len(struct_def.fields) |->
        IF struct_def.fields[i].deprecated THEN <<>>
        ELSE <<Item("getter", i, GetterKey(struct_def, i),
                    struct_def.fields[i].constant, "")>>])

\* line 282: the value the emitted getter body returns
GetterReturn(tableValue, stored, constant) ==
    IF tableValue # 0 THEN stored ELSE constant

(***************************************************************************)
(* GenStruct, lines 294-303: the parameters of create<Record>.             *)
(***************************************************************************)
CreateParams(struct_def) ==
    Concat([i \in 1..Len(struct_def.fields) |->
        IF struct_def.fields[i].deprecated THEN <<>>
        ELSE <<Item("create.param", i, -1, 0,
                    IF struct_def.fields[i].scalar THEN "" ELSE "UOffset")>>])

(***************************************************************************)
(* lines 307 and 343: the number printed in startObject(feildCount: ...).  *)
(***************************************************************************)
\* faulty variant: only the non-deprecated fields are counted
FieldCountEmitted(struct_def) ==
    Cardinality({i \in 1..Len(struct_def.fields) : ~struct_def.fields[i].deprecated})

FieldCount(struct_def) == Len(struct_def.fields)

(***************************************************************************)
(* GenStruct, lines 308-323: the add calls in the body of create<Record>.  *)
(* The inner loop runs from rbegin() to rend(); the outer loop halves size *)
(* from sizeof(largest_scalar_t) (sortbysize) or from 1 until it is 0.     *)
(***************************************************************************)
\* faulty variant: the inner loop runs from begin() to end()
AddCallsPassForward(struct_def, size) ==
    Concat([i \in 1..Len(struct_def.fields) |->
        IF /\ ~struct_def.fields[i].deprecated
           /\ (~struct_def.sortbysize \/ size = struct_def.fields[i].size)
        THEN <<Item("create.add", i, -1, 0,
                    IF struct_def.fields[i].scalar THEN "" ELSE "Offset")>>
        ELSE <<>>])

AddCallsPass(struct_def, size) ==
    Concat([j \in 1..Len(struct_def.fields) |->
        LET i == Len(struct_def.fields) + 1 - j IN
        IF /\ ~struct_def.fields[i].deprecated
           /\ (~struct_def.sortbysize \/ size = struct_def.fields[i].size)
        THEN <<Item("create.add", i, -1, 0,
                    IF struct_def.fields[i].scalar THEN "" ELSE "Offset")>>
        ELSE <<>>])

RECURSIVE AddCallsFrom(_, _)
AddCallsFrom(struct_def, size) ==
    IF size = 0 THEN <<>>
    ELSE AddCallsPass(struct_def, size) \o AddCallsFrom(struct_def, size \div 2)

\* faulty variant: the size classes are visited from 1 up to the largest
RECURSIVE AddCallsUpFrom(_, _)
AddCallsUpFrom(struct_def, size) ==
    IF size > LargestScalarSize THEN <<>>
    ELSE AddCallsPass(struct_def, size) \o AddCallsUpFrom(struct_def, size * 2)

AddCallsAscending(struct_def) ==
    IF struct_def.sortbysize THEN AddCallsUpFrom(struct_def, 1)
    ELSE AddCallsFrom(struct_def, 1)

AddCalls(struct_def) ==
    AddCallsFrom(struct_def, IF struct_def.sortbysize THEN LargestScalarSize ELSE 1)

(***************************************************************************)
(* generateClassStructStaticMethods, lines 344-360: the add<Field>         *)
(* helpers; vTableIndex is it - fields.vec.begin().                        *)
(***************************************************************************)
\* faulty variant: deprecated fields are skipped in the numbering
AddHelperIndexEmitted(struct_def, i) ==
    Cardinality({k \in 1..(i - 1) : ~struct_def.fields[k].deprecated})

AddHelperIndex(struct_def, i) == i - 1

AddHelpers(struct_def) ==
    Concat([i \in 1..Len(struct_def.fields) |->
        IF struct_def.fields[i].deprecated THEN <<>>
        ELSE <<Item("add_func", i, AddHelperIndex(struct_def, i),
                    struct_def.fields[i].constant,
                    IF struct_def.fields[i].scalar THEN "" ELSE "Offset")>>])

(***************************************************************************)
(* lines 367-375: the required(o, field.value.offset) calls of end<Record> *)
(***************************************************************************)
\* faulty variant: the key is the declaration position
RequiredKeyIsIndex(struct_def, i) == i - 1

RequiredKey(struct_def, i) == struct_def.fields[i].offset

RequiredChecks(struct_def) ==
    Concat([i \in 1..Len(struct_def.fields) |->
        IF ~struct_def.fields[i].deprecated /\ struct_def.fields[i].required
        THEN <<Item("required", i, RequiredKey(struct_def, i), 0, "")>>
        ELSE <<>>])

(***************************************************************************)
(* lines 377-387: finish<Record>Buffer, for the root definition only.      *)
(***************************************************************************)
\* faulty variant: the root test of line 377 is missing
FinishEntryAlways(is_root, identifier) ==
    <<Item("finish_func", 0, -1, 0, "")>>
    \o (IF identifier # "" THEN <<Item("finish.identifier", 0, -1, 0, identifier)>>
        ELSE <<>>)

FinishEntry(is_root, identifier) ==
    IF is_root
    THEN <<Item("finish_func", 0, -1, 0, "")>>
         \o (IF identifier # "" THEN <<Item("finish.identifier", 0, -1, 0, identifier)>>
             ELSE <<>>)
    ELSE <<>>

(***************************************************************************)
(* lines 388-419: the key compare and lookup stubs.                        *)
(***************************************************************************)
KeyLookup(struct_def) ==
    IF struct_def.has_key /\ ~struct_def.fixed
    THEN <<Item("keysCompare", 0, -1, 0, ""), Item("lookup_by_key", 0, -1, 0, "")>>
    ELSE <<>>

(***************************************************************************)
(* generateClassStructStaticMethods, lines 331-422.                        *)
(***************************************************************************)
generateClassStructStaticMethods(struct_def, is_root, identifier) ==
    <<Item("start_func", 0, -1, 0, ""),
      Item("start.startObject", 0, FieldCount(struct_def), 0, "")>>
    \o AddHelpers(struct_def)
    \o <<Item("end_func", 0, -1, 0, ""), Item("end.endObject", 0, -1, 0, "")>>
    \o RequiredChecks(struct_def)
    \o <<Item("end.return", 0, -1, 0, "")>>
    \o FinishEntry(is_root, identifier)
    \o KeyLookup(struct_def)
    \o <<Item("struct_end", 0, -1, 0, "")>>

(***************************************************************************)
(* GenStruct, lines 235-329.  No branch of it reads struct_def.fixed.      *)
(***************************************************************************)
GenStruct(struct_def, is_root, identifier) ==
    <<Item("struct", 0, -1, 0, "Table"), Item("init", 0, -1, 0, "")>>
    \o Accessors(struct_def)
    \o <<Item("create_func", 0, -1, 0, "")>>
    \o CreateParams(struct_def)
    \o <<Item("create.startObject", 0, FieldCount(struct_def), 0, "")>>
    \o AddCalls(struct_def)
    \o <<Item("create.return_end", 0, -1, 0, "")>>
    \o generateClassStructStaticMethods(struct_def, is_root, identifier)

(***************************************************************************)
(* The schemas the model enumerates.                                       *)
(***************************************************************************)
\* the type of a field as the generator reads it: SizeOf(base_type),
\* IsScalar(base_type) and the declared default
FieldTypes ==
    { [size |-> 1, scalar |-> TRUE,  constant |-> 0],     \* bool = false
      [size |-> 2, scalar |-> TRUE,  constant |-> 100],   \* short = 100
      [size |-> 4, scalar |-> FALSE, constant |-> 0],     \* string
      [size |-> 8, scalar |-> TRUE,  constant |-> 0] }    \* double

\* a declared field before the parser numbered it; only non-scalar fields
\* may be required
FieldDecls ==
    { [type |-> t, deprecated |-> d, required |-> r] :
        t \in FieldTypes, d \in BOOLEAN, r \in BOOLEAN }

ValidFieldDecls == {f \in FieldDecls : f.required => ~f.type.scalar}

\* field.value.offset is assigned by the parser, one value per declared
\* field: the field's vtable slot, counted over the non-deprecated fields
\* in declaration order ("slot"), or the byte offset of the vtable entry of
\* the field's declaration position ("voffset")
Layouts == {"slot", "voffset"}

ValueOffset(decls, layout, i) ==
    IF layout = "slot"
    THEN Cardinality({k \in 1..(i - 1) : ~decls[k].deprecated})
    ELSE 2 * (i - 1) + 4

FieldDef(decls, layout, i) ==
    [size |-> decls[i].type.size, scalar |-> decls[i].type.scalar,
     constant |-> decls[i].type.constant, deprecated |-> decls[i].deprecated,
     required |-> decls[i].required, offset |-> ValueOffset(decls, layout, i)]

StructDef(decls, layout, sortbysize, fixed, has_key) ==
    [fields |-> [i \in 1..Len(decls) |-> FieldDef(decls, layout, i)],
     sortbysize |-> sortbysize, fixed |-> fixed, has_key |-> has_key]

\* every keyless table or struct of up to MaxFields fields
AllStructDefs ==
    { StructDef(decls, layout, s, f, FALSE) :
        decls \in SeqsUpTo(ValidFieldDecls, MaxFields), layout \in Layouts,
        s \in BOOLEAN, f \in BOOLEAN }

Scalar(size, constant) ==
    [type |-> [size |-> size, scalar |-> TRUE, constant |-> constant],
     deprecated |-> FALSE, required |-> FALSE]

\* table Monster { hp: short = 100; name: string (required); }
Monster ==
    StructDef(<<Scalar(2, 100),
                [type |-> [size |-> 4, scalar |-> FALSE, constant |-> 0],
                 deprecated |-> FALSE, required |-> TRUE]>>,
              "voffset", FALSE, FALSE, FALSE)

\* struct Vec3 { x: float; y: float; z: float; }
Vec3 == StructDef(<<Scalar(4, 0), Scalar(4, 0), Scalar(4, 0)>>,
                  "voffset", FALSE, TRUE, FALSE)

\* table Stat { id: long (key); count: short; } with sortbysize
Stat == StructDef(<<Scalar(8, 0), Scalar(2, 0)>>, "voffset", TRUE, FALSE, TRUE)

SampleStructDefs == {Monster, Vec3, Stat}

\* enum Color: byte { Red = 0, Green = 1, Blue = 2 }; generated marks an
\* enum some earlier pass already emitted
EnumDefs == { [vals |-> <<0, 1, 2>>, generated |-> g] : g \in BOOLEAN }

(***************************************************************************)
(* State after construction of the generator, before generate() runs.      *)
(***************************************************************************)
InitRun ==
    /\ pc = "enums"
    /\ it = 1
    /\ def = <<"none", 0>>
    /\ declcode = <<>>
    /\ one_file_code = <<>>
    /\ saves = <<>>
    /\ ret = "running"

\* one table or struct of any shape, alone in its schema
InitOneStruct ==
    /\ enums = <<>>
    /\ structs \in {<<s>> : s \in AllStructDefs}
    /\ one_file = FALSE
    /\ root_struct_def = 0
    /\ file_identifier = ""

\* a schema of several definitions
InitSchema ==
    /\ enums \in SeqsUpTo(EnumDefs, MaxEnums)
    /\ structs \in SeqsUpTo(SampleStructDefs, MaxStructs)
    /\ one_file \in BOOLEAN
    /\ root_struct_def \in 0..Len(structs)
    /\ file_identifier \in {"", "MONS"}

Init == (InitOneStruct \/ InitSchema) /\ InitRun

(***************************************************************************)
(* SaveType, lines 173-186: empty code is not saved and counts as success. *)
(***************************************************************************)
SaveType(kind, idx, classcode, ok) ==
    IF Len(classcode) = 0 THEN saves
    ELSE Append(saves, [kind |-> kind, idx |-> idx,
                        code |-> BeginFile \o classcode, ok |-> ok])

SaveTypeResult(classcode, ok) == Len(classcode) = 0 \/ ok

parser == <<enums, structs, one_file, root_struct_def, file_identifier>>

(***************************************************************************)
(* generate(), lines 112-124: one iteration of the loop over the enums.    *)
(***************************************************************************)
EnumStep ==
    /\ pc = "enums"
    /\ it <= Len(enums)
    /\ LET code == IF ~enums[it].generated THEN GenEnum(enums[it]) ELSE <<>> IN
       /\ declcode' = code
       /\ def' = <<"enum", it>>
       /\ IF one_file
          THEN /\ one_file_code' = one_file_code \o code
               /\ it' = it + 1
               /\ UNCHANGED <<saves, pc, ret>>
          ELSE \E ok \in BOOLEAN :
               /\ saves' = SaveType("enum", it, code, ok)
               /\ IF SaveTypeResult(code, ok)
                  THEN /\ it' = it + 1
                       /\ UNCHANGED <<pc, ret>>
                  ELSE /\ pc' = "done"
                       /\ ret' = "false"
                       /\ UNCHANGED it
               /\ UNCHANGED one_file_code
    /\ UNCHANGED parser

\* the enum loop ends, the loop over the structs begins
EnumLoopEnd ==
    /\ pc = "enums"
    /\ it > Len(enums)
    /\ pc' = "structs"
    /\ it' = 1
    /\ UNCHANGED <<parser, def, declcode, one_file_code, saves, ret>>

(***************************************************************************)
(* generate(), lines 127-136: one iteration of the loop over the structs.  *)
(***************************************************************************)
\* faulty variant: the result of SaveType is ignored
StructStepKeepGoing ==
    /\ pc = "structs"
    /\ it <= Len(structs)
    /\ LET code == GenStruct(structs[it], root_struct_def = it, file_identifier) IN
       /\ declcode' = code
       /\ def' = <<"struct", it>>
       /\ it' = it + 1
       /\ IF one_file
          THEN /\ one_file_code' = one_file_code \o code
               /\ UNCHANGED saves
          ELSE \E ok \in BOOLEAN :
               /\ saves' = SaveType("struct", it, code, ok)
               /\ UNCHANGED one_file_code
    /\ UNCHANGED <<parser, pc, ret>>

StructStep ==
    /\ pc = "structs"
    /\ it <= Len(structs)
    /\ LET code == GenStruct(structs[it], root_struct_def = it, file_identifier) IN
       /\ declcode' = code
       /\ def' = <<"struct", it>>
       /\ IF one_file
          THEN /\ one_file_code' = one_file_code \o code
               /\ it' = it + 1
               /\ UNCHANGED <<saves, pc, ret>>
          ELSE \E ok \in BOOLEAN :
               /\ saves' = SaveType("struct", it, code, ok)
               /\ IF SaveTypeResult(code, ok)
                  THEN /\ it' = it + 1
                       /\ UNCHANGED <<pc, ret>>
                  ELSE /\ pc' = "done"
                       /\ ret' = "false"
                       /\ UNCHANGED it
               /\ UNCHANGED one_file_code
    /\ UNCHANGED parser

\* lines 138-147: the struct loop ends
StructLoopEnd ==
    /\ pc = "structs"
    /\ it > Len(structs)
    /\ IF one_file
       THEN /\ pc' = "onefile"
            /\ UNCHANGED ret
       ELSE /\ pc' = "done"
            /\ ret' = "true"
    /\ UNCHANGED <<parser, it, def, declcode, one_file_code, saves>>

\* lines 139-146: the single save of the combined text
OneFileSave ==
    /\ pc = "onefile"
    /\ \E ok \in BOOLEAN :
        /\ saves' = Append(saves, [kind |-> "onefile", idx |-> 0,
                                   code |-> BeginFile \o one_file_code, ok |-> ok])
        /\ ret' = IF ok THEN "true" ELSE "false"
    /\ pc' = "done"
    /\ UNCHANGED <<parser, it, def, declcode, one_file_code>>

Next == EnumStep \/ EnumLoopEnd \/ StructStep \/ StructLoopEnd \/ OneFileSave

Spec == Init /\ [][Next]_vars

(***************************************************************************)
(* Vocabulary of the properties.                                           *)
(***************************************************************************)
\* declcode holds the text generated from the struct structs[def[2]]
Generated == def[1] = "struct"

Cur == structs[def[2]]

Ops(code, op) == SelectSeq(code, LAMBDA x : x.op = op)

FieldsOf(items) == [k \in 1..Len(items) |-> items[k].field]

NumsOf(items) == {items[k].num : k \in 1..Len(items)}

Reverse(s) == [k \in 1..Len(s) |-> s[Len(s) + 1 - k]]

\* declaration positions of the non-deprecated fields, ascending
Live(struct_def) ==
    SelectSeq([i \in 1..Len(struct_def.fields) |-> i],
              LAMBDA i : ~struct_def.fields[i].deprecated)

LiveOfSize(struct_def, size) ==
    SelectSeq(Live(struct_def), LAMBDA i : struct_def.fields[i].size = size)

LiveRequired(struct_def) ==
    SelectSeq(Live(struct_def), LAMBDA i : struct_def.fields[i].required)

\* position of field i among the non-deprecated fields, 0-based
LiveRank(struct_def, i) ==
    Cardinality({k \in 1..(i - 1) : ~struct_def.fields[k].deprecated})

HasDeprecated(struct_def) ==
    \E i \in 1..Len(struct_def.fields) : struct_def.fields[i].deprecated

\* a deprecated field is declared before a non-deprecated one
DeprecatedBeforeLive(struct_def) ==
    \E i, j \in 1..Len(struct_def.fields) :
        i < j /\ struct_def.fields[i].deprecated /\ ~struct_def.fields[j].deprecated

(***************************************************************************)
(* C1 as stated: the vTableIndex values of the add<Field> helpers are the  *)
(* positions of the fields among the non-deprecated fields, so they are    *)
(* distinct and form exactly 0 .. emittedFieldCount-1.                     *)
(***************************************************************************)
C1_SlotsContiguous ==
    Generated =>
        LET h == Ops(declcode, "add_func") IN
        /\ \A k \in 1..Len(h) : h[k].num = LiveRank(Cur, h[k].field)
        /\ NumsOf(h) = 0..(Len(Live(Cur)) - 1)

(***************************************************************************)
(* C1 amended: there is one add<Field> helper per non-deprecated field, in *)
(* declaration order; its vTableIndex is the field's position among ALL    *)
(* declared fields (deprecated ones keep their number), so the values are  *)
(* pairwise distinct, below the number of declared fields, and form        *)
(* 0 .. emittedFieldCount-1 exactly when no deprecated field is declared   *)
(* before a non-deprecated one.                                            *)
(***************************************************************************)
C1_SlotsAreDeclarationPositions ==
    Generated =>
        LET h == Ops(declcode, "add_func") IN
        /\ FieldsOf(h) = Live(Cur)
        /\ \A k \in 1..Len(h) : h[k].num = h[k].field - 1
        /\ \A k, l \in 1..Len(h) : k # l => h[k].num # h[l].num
        /\ NumsOf(h) \subseteq 0..(Len(Cur.fields) - 1)
        /\ (NumsOf(h) = 0..(Len(Live(Cur)) - 1)) <=> ~DeprecatedBeforeLive(Cur)

C1_Witness ==
    /\ Generated
    /\ DeprecatedBeforeLive(Cur)
    /\ Len(Ops(declcode, "add_func")) >= 2

(***************************************************************************)
(* C2 as stated: the field count of both startObject calls is the number   *)
(* of non-deprecated fields.                                               *)
(***************************************************************************)
StartObjects(code) ==
    SelectSeq(code, LAMBDA x : x.op \in {"create.startObject", "start.startObject"})

C2_StartCountIsEmitted ==
    Generated =>
        /\ Len(StartObjects(declcode)) = 2
        /\ NumsOf(StartObjects(declcode)) = {Len(Live(Cur))}

(***************************************************************************)
(* C2 amended: the field count of the startObject call in create<Record>   *)
(* and in start<Record> is the number of ALL declared fields, deprecated   *)
(* ones included, whatever sortbysize is.                                  *)
(***************************************************************************)
C2_StartCountIsDeclared ==
    Generated =>
        /\ Len(Ops(declcode, "create.startObject")) = 1
        /\ Len(Ops(declcode, "start.startObject")) = 1
        /\ NumsOf(StartObjects(declcode)) = {Len(Cur.fields)}

C2_Witness ==
    /\ Generated
    /\ Cur.sortbysize
    /\ HasDeprecated(Cur)
    /\ Len(Live(Cur)) >= 1
    /\ NumsOf(StartObjects(declcode)) = {Len(Cur.fields)}

(***************************************************************************)
(* C3 as stated: without sortbysize the add calls in create<Record> are in *)
(* declaration order.                                                      *)
(***************************************************************************)
C3_CreateInDeclarationOrder ==
    (Generated /\ ~Cur.sortbysize) =>
        FieldsOf(Ops(declcode, "create.add")) = Live(Cur)

(***************************************************************************)
(* C3 amended: without sortbysize the add calls in create<Record> are the  *)
(* non-deprecated fields in REVERSE declaration order, each once.          *)
(***************************************************************************)
C3_CreateInReverseOrder ==
    (Generated /\ ~Cur.sortbysize) =>
        FieldsOf(Ops(declcode, "create.add")) = Reverse(Live(Cur))

C3_Witness ==
    /\ Generated
    /\ ~Cur.sortbysize
    /\ Len(Live(Cur)) >= 2
    /\ Len(Ops(declcode, "create.add")) = Len(Live(Cur))

(***************************************************************************)
(* C4: with sortbysize the add calls in create<Record> are, for the size   *)
(* classes 8, 4, 2, 1 in that order, the non-deprecated fields of that     *)
(* size in reverse declaration order; every non-deprecated field appears   *)
(* exactly once; the add<Field> helpers are those of the same record with  *)
(* sortbysize unset.                                                       *)
(***************************************************************************)
C4_SortBySize ==
    (Generated /\ Cur.sortbysize) =>
        LET calls == FieldsOf(Ops(declcode, "create.add"))
            plain == GenStruct([Cur EXCEPT !.sortbysize = FALSE],
                               root_struct_def = def[2], file_identifier)
        IN
        /\ calls = Reverse(LiveOfSize(Cur, 8)) \o Reverse(LiveOfSize(Cur, 4))
                   \o Reverse(LiveOfSize(Cur, 2)) \o Reverse(LiveOfSize(Cur, 1))
        /\ \A i \in 1..Len(Cur.fields) :
              Cardinality({k \in 1..Len(calls) : calls[k] = i})
                  = IF Cur.fields[i].deprecated THEN 0 ELSE 1
        /\ Ops(declcode, "add_func") = Ops(plain, "add_func")

C4_Witness ==
    /\ Generated
    /\ Cur.sortbysize
    /\ \E i, j, k \in 1..Len(Cur.fields) :
          /\ i < j /\ j < k
          /\ ~Cur.fields[i].deprecated /\ ~Cur.fields[j].deprecated
          /\ ~Cur.fields[k].deprecated
          /\ Cur.fields[i].size = Cur.fields[j].size
          /\ Cur.fields[k].size > Cur.fields[i].size
          /\ FieldsOf(Ops(declcode, "create.add")) = <<k, j, i>>

C6_FinishOnlyForRoot ==
    Generated =>
        LET f == Ops(declcode, "finish_func")
            l == Ops(declcode, "finish.identifier")
        IN
        /\ Len(f) = (IF root_struct_def = def[2] THEN 1 ELSE 0)
        /\ Len(l) = (IF root_struct_def = def[2] /\ file_identifier # "" THEN 1 ELSE 0)
        /\ \A k \in 1..Len(l) : l[k].text = file_identifier

C6_Witness ==
    /\ Generated
    /\ def[2] = 2
    /\ root_struct_def = 2
    /\ file_identifier # ""
    /\ Len(Ops(declcode, "finish.identifier")) = 1
    /\ Len(Ops(declcode, "finish_func")) = 1
    /\ saves # <<>>
    /\ Len(Ops(saves[Len(saves)].code, "finish_func")) = 1

(***************************************************************************)
(* C7: nothing in the text of a record names a deprecated field: no        *)
(* getter, no create parameter, no add call, no add<Field> helper, no      *)
(* required call.                                                          *)
(***************************************************************************)
C7_DeprecatedNeverEmitted ==
    Generated =>
        \A k \in 1..Len(declcode) :
            declcode[k].field # 0 => ~Cur.fields[declcode[k].field].deprecated

C7_Witness ==
    /\ Generated
    /\ Cur.sortbysize
    /\ \E i, j \in 1..Len(Cur.fields) :
          /\ Cur.fields[i].deprecated /\ Cur.fields[i].required
          /\ ~Cur.fields[j].deprecated /\ Cur.fields[j].required
    /\ Len(Ops(declcode, "required")) >= 1

(***************************************************************************)
(* C8 as stated: the text of a fixed record (a struct) holds no            *)
(* start/add/end builder function, no startObject/add/endObject call and   *)
(* no vtable lookup in an accessor.                                        *)
(***************************************************************************)
VTableOps ==
    {"getter", "start_func", "start.startObject", "create.startObject",
     "create.add", "add_func", "end_func", "end.endObject", "required"}

C8_FixedHasNoVTable ==
    (Generated /\ Cur.fixed) =>
        \A k \in 1..Len(declcode) : declcode[k].op \notin VTableOps

(***************************************************************************)
(* C9: without oneFile the definitions are processed enums first, then     *)
(* records, each in input order, and each non-empty text is saved as it is *)
(* produced; generate() stops with failure at the first failed save, so a  *)
(* failed save is the last thing that happened, and it returns success     *)
(* only after every definition was processed with no failed save.  With    *)
(* oneFile nothing is saved before the end, and the one save is the        *)
(* combined text, enums first, then records, each in input order; its      *)
(* outcome is the result.                                                  *)
(***************************************************************************)
\* the definitions processed so far: <<number of enums, number of structs>>
Processed ==
    CASE pc = "enums" /\ ret = "running" -> <<it - 1, 0>>
      [] pc \in {"structs", "onefile"} -> <<Len(enums), it - 1>>
      [] pc = "done" /\ ret = "false" /\ ~one_file ->
            IF def[1] = "enum" THEN <<def[2], 0>> ELSE <<Len(enums), def[2]>>
      [] OTHER -> <<Len(enums), Len(structs)>>

EnumText(i) == IF enums[i].generated THEN <<>> ELSE GenEnum(enums[i])

StructText(j) == GenStruct(structs[j], root_struct_def = j, file_identifier)

\* the files saved one per definition once n[1] enums and n[2] structs are done
ExpectedFiles(n) ==
    Concat([i \in 1..n[1] |->
              IF EnumText(i) = <<>> THEN <<>>
              ELSE <<[kind |-> "enum", idx |-> i, code |-> BeginFile \o EnumText(i)]>>])
    \o [j \in 1..n[2] |->
              [kind |-> "struct", idx |-> j, code |-> BeginFile \o StructText(j)]]

SavedFiles ==
    [k \in 1..Len(saves) |->
        [kind |-> saves[k].kind, idx |-> saves[k].idx, code |-> saves[k].code]]

CombinedText ==
    BeginFile \o Concat([i \in 1..Len(enums) |-> EnumText(i)])
              \o Concat([j \in 1..Len(structs) |-> StructText(j)])

====
